---- MODULE Spec2Model ----
(***************************************************************************)
(* Room-scoped connection registry and broadcast relay of src/main.py:     *)
(* ConnectionManager (connect / disconnect / broadcast) and the            *)
(* per-connection coroutine websocket_endpoint, run by a single-threaded   *)
(* cooperative event loop.  A coroutine runs without interruption from one *)
(* await to the next; the awaits are websocket.accept(), send_text() and   *)
(* receive_text().                                                         *)
(***************************************************************************)
EXTENDS Integers, Sequences, FiniteSets, TLC

\* ------------------------------------------------------------------ bounds
\* Events of the environment after the initial state: a client sends a text,
\* a client goes away, a send_text suspends its coroutine (a slow client's
\* backpressure; every other send_text completes without yielding to the
\* event loop).
MaxEvents == 2

\* ------------------------------------------------------------ program data
\* WebSocket objects: one per invocation of websocket_endpoint.
Conns == {"w1", "w2", "w3", "w4"}
\* The connections that arrive in the runs of Spec.
Clients == {"w1", "w2", "w3"}
\* Values of the path parameter room_id.
Rooms == {"r1", "r2"}
\* The rooms a connection may ask for.  Room ids are interchangeable keys of
\* the dict, so w1's is fixed and the others' are free.
RoomChoices(ws) == IF ws = "w1" THEN {"r1"} ELSE Rooms
\* The path parameter user_id of each connection; not validated for
\* uniqueness, so two connections may carry the same one.
UserId(ws) ==
  CASE ws = "w1" -> "alice" [] ws = "w2" -> "bob" [] ws = "w3" -> "carol"
    [] OTHER -> "alice"
\* The threshold of the readiness check (main.py line 82).
Threshold == 3

Range(s) == {s[i] : i \in 1..Len(s)}

\* ------------------------------------------------------------------- JSON
\* A JSON text is modelled by its members in textual order and its layout.
\* "compact" has no blanks, "py" has the ", " and ": " separators json.dumps
\* writes by default, "spaced" has other blanks.  ok = FALSE is a text
\* json.loads rejects.
JsonText(fmt, pairs) == [ok |-> TRUE, fmt |-> fmt, pairs |-> pairs]
Malformed == [ok |-> FALSE, fmt |-> "compact", pairs |-> <<>>]

\* Texts a client may send.
ClientTexts ==
  { JsonText("compact", << <<"type", "offer">>, <<"sdp", "v0">> >>),
    JsonText("spaced", << <<"type", "offer">>, <<"type", "answer">> >>),
    Malformed }

\* dict.__setitem__: a key already present keeps its position and takes the
\* new value, a new key is appended.
DictSet(d, k, v) ==
  IF \E i \in 1..Len(d) : d[i][1] = k
    THEN [i \in 1..Len(d) |-> IF d[i][1] = k THEN <<k, v>> ELSE d[i]]
    ELSE Append(d, <<k, v>>)

\* json.loads of a well-formed object text: a dict, members in insertion order.
RECURSIVE LoadPairs(_, _)
LoadPairs(pairs, d) ==
  IF pairs = <<>> THEN d
  ELSE LoadPairs(Tail(pairs), DictSet(d, Head(pairs)[1], Head(pairs)[2]))

json_loads(text) == LoadPairs(text.pairs, <<>>)

\* json.dumps with default arguments: the dict's members in order, default
\* separators.
json_dumps(d) == JsonText("py", d)

\* The object a text denotes: key -> value.
Content(text) ==
  LET d == json_loads(text)
  IN  [k \in {d[i][1] : i \in 1..Len(d)} |->
         d[CHOOSE i \in 1..Len(d) : d[i][1] = k][2]]

\* ---------------------------------------------------------------- Registry
\* active_connections is a dict: a function whose domain is the set of keys.
EmptyDict == [r \in {} |-> <<>>]

\* connect() without the test of line 32: the list is made anew each time.
connect_fresh_list(ac, websocket, room_id) ==
  [r \in DOMAIN ac \cup {room_id} |->
     IF r = room_id THEN <<websocket>> ELSE ac[r]]

\* ConnectionManager.connect after the accept: create the list when absent,
\* append.
connect(ac, websocket, room_id) ==
  LET base == IF room_id \in DOMAIN ac THEN ac[room_id] ELSE <<>>
  IN  [r \in DOMAIN ac \cup {room_id} |->
         IF r = room_id THEN Append(base, websocket) ELSE ac[r]]

\* list.remove(x): drops the first occurrence.
RECURSIVE ListRemove(_, _)
ListRemove(s, x) ==
  IF s = <<>> THEN <<>>
  ELSE IF Head(s) = x THEN Tail(s)
  ELSE <<Head(s)>> \o ListRemove(Tail(s), x)

\* list.remove raises ValueError when x is not in the list; disconnect does
\* not catch it.
disconnect_raises(ac, websocket, room_id) ==
  /\ room_id \in DOMAIN ac
  /\ websocket \notin Range(ac[room_id])

\* disconnect() without lines 41-42: an emptied list keeps its key.
disconnect_keep_empty(ac, websocket, room_id) ==
  IF room_id \in DOMAIN ac /\ websocket \in Range(ac[room_id])
    THEN [ac EXCEPT ![room_id] = ListRemove(ac[room_id], websocket)]
    ELSE ac

\* ConnectionManager.disconnect: the registry it leaves.
disconnect(ac, websocket, room_id) ==
  IF room_id \in DOMAIN ac /\ websocket \in Range(ac[room_id])
    THEN LET rest == ListRemove(ac[room_id], websocket)
         IN  IF rest = <<>>
               THEN [r \in DOMAIN ac \ {room_id} |-> ac[r]]
               ELSE [ac EXCEPT ![room_id] = rest]
    ELSE ac

\* len(manager.active_connections.get(room_id, []))
room_size(ac, room_id) == IF room_id \in DOMAIN ac THEN Len(ac[room_id]) ELSE 0

\* The messages websocket_endpoint builds (lines 75, 83-86, 103).
join_message(user_id) == << <<"event", "player_joined">>, <<"user_id", user_id>> >>
start_message(size) ==
  << <<"event", "game_start">>, <<"message", <<size, "people gathered">> >> >>
leave_message(user_id) == << <<"event", "player_left">>, <<"user_id", user_id>> >>

\* ------------------------------------------------------------------- state
VARIABLES
  active_connections,  \* manager.active_connections
  pc,         \* where each coroutine is: off (never arrives), idle (not yet
              \* invoked), send, recv (suspended there), done, crashed
  room,       \* the room_id each coroutine was invoked with ("none" before)
  iter,       \* the for loop of the broadcast each coroutine is suspended in
  open,       \* whether each connection's transport still takes sends
  inbox,      \* the client text queued on each connection, or NoText
  failMode,   \* what send_text does on a closed transport in this build
  delivered,  \* per connection, the calls whose send_text to it returned
  calls,      \* per room, the broadcast calls in the order they were issued
  joined,     \* connections connect() has appended
  left,       \* connections disconnect() has removed
  relayed,    \* client texts sent since the initial state
  closed,     \* clients gone since the initial state
  yields,     \* sends that suspended since the initial state
  lastOp      \* the registry harness's last operation and its outcome

vars == <<active_connections, pc, room, iter, open, inbox, failMode, delivered,
          calls, joined, left, relayed, closed, yields, lastOp>>

Events == relayed + closed + yields

NoText == [ok |-> FALSE, fmt |-> "none", pairs |-> <<>>]
NoIter == [call |-> 0, idx |-> 0, detached |-> FALSE, then |-> "none"]
NoOp == [op |-> "none", ws |-> "none", room |-> "none", raised |-> FALSE,
         before |-> EmptyDict]

\* What a send on a closed transport does depends on the server library's
\* version: the text is dropped silently, WebSocketDisconnect is raised, or
\* another exception (RuntimeError, OSError) is raised.
FailModes == {"drop", "disconnect", "error"}

\* ------------------------------------------------------------ coroutines
\* The part of the state a coroutine's code reads and writes, as a record s:
\* ac, pc, room, iter, open, delivered, calls, joined, left.  Each operator
\* below is a stretch of code and yields the state at the next suspension.
\* s.at says which send_text of the stretch suspends: the at-th one, none
\* when 0; s.susp says that one did.
Here(at) ==
  [ac |-> active_connections, pc |-> pc, room |-> room, iter |-> iter,
   open |-> open, delivered |-> delivered, calls |-> calls,
   joined |-> joined, left |-> left, at |-> at, susp |-> FALSE]

\* The sends one stretch of one coroutine can make: two broadcasts, each to
\* the registered connections and the one being admitted.
Ats == 0..(2 * (Cardinality(joined \ left) + 1))

\* A call of broadcast(), as issued: who issued it, the serialized message
\* (and, for a relay, the text it was parsed from), the room's list at the
\* call (snap), the connections send_text was called on (rcpts), whether the
\* room's list was mutated while the call ran (disturbed), whether send_text
\* was called on a connection already deregistered (late), and whether the
\* call is running, returned or raised.
NewCall(by, kind, message, data, members) ==
  [by |-> by, kind |-> kind, text |-> json_dumps(message), data |-> data,
   snap |-> members, rcpts |-> <<>>, disturbed |-> FALSE, late |-> FALSE,
   state |-> "running"]

\* A list of a room is mutated: the calls still iterating it are marked.
Disturb(cs, room_id) ==
  [cs EXCEPT ![room_id] =
     [n \in 1..Len(cs[room_id]) |->
        IF cs[room_id][n].state = "running"
          THEN [cs[room_id][n] EXCEPT !.disturbed = TRUE]
          ELSE cs[room_id][n]]]

\* connect(), lines 32-34, on the state.
Register(s, ws, room_id) ==
  [s EXCEPT !.ac = connect(s.ac, ws, room_id),
            !.room[ws] = room_id,
            !.joined = @ \cup {ws},
            !.calls = Disturb(@, room_id)]

\* disconnect(), lines 38-42, on the state, when list.remove finds ws.  When
\* the key is deleted the list object lives on, empty, in the loops that are
\* iterating it; a later connect() makes a new list those loops never see.
Deregister(s, ws) ==
  LET room_id == s.room[ws]
      ac2 == disconnect(s.ac, ws, room_id)
  IN  [s EXCEPT !.ac = ac2,
                !.left = @ \cup {ws},
                !.calls = Disturb(@, room_id),
                !.iter = [c \in Conns |->
                            IF /\ c # ws
                               /\ s.iter[c].call > 0
                               /\ s.room[c] = room_id
                               /\ room_id \notin DOMAIN ac2
                              THEN [s.iter[c] EXCEPT !.detached = TRUE]
                              ELSE s.iter[c]]]

\* The coroutine ends with an uncaught exception; the server closes the
\* transport.  Nothing is removed from the registry.
Crash(s, ws) ==
  [s EXCEPT !.pc[ws] = "crashed", !.iter[ws] = NoIter, !.open[ws] = FALSE]

\* A loop over a copy of the list made when the loop starts.
LoopList_snapshot(s, ws) == s.calls[s.room[ws]][s.iter[ws].call].snap

\* A loop over the connections of every room.
RECURSIVE Flatten(_, _)
Flatten(ac, keys) ==
  IF keys = {} THEN <<>>
  ELSE LET k == CHOOSE x \in keys : TRUE
       IN  ac[k] \o Flatten(ac, keys \ {k})
LoopList_all_rooms(s, ws) == Flatten(s.ac, DOMAIN s.ac)

\* The list the for loop of line 48 reads at each step: the live list object.
LoopList(s, ws) ==
  IF s.iter[ws].detached THEN <<>> ELSE s.ac[s.room[ws]]

SetCall(s, ws, f, v) ==
  [s EXCEPT !.calls[s.room[ws]][s.iter[ws].call][f] = v]

RECURSIVE Broadcast(_, _, _, _, _, _), NextSend(_, _), Continue(_, _, _),
          Raise(_, _, _, _), Teardown(_, _)

\* broadcast(), lines 46-48 up to the first send.  `then` names the code
\* that follows the call: "check" (line 80), "recv" (line 92), "exit"
\* (line 105).
Broadcast(s, ws, kind, message, data, then) ==
  LET room_id == s.room[ws]
  IN  IF room_id \notin DOMAIN s.ac
        THEN Continue(s, ws, then)
        ELSE NextSend(
               [s EXCEPT
                  !.calls[room_id] =
                     Append(@, NewCall(ws, kind, message, data, s.ac[room_id])),
                  !.iter[ws] = [call |-> Len(s.calls[room_id]) + 1, idx |-> 0,
                                detached |-> FALSE, then |-> then]],
               ws)

\* A loop that, when send_text raises, removes the connection it failed on
\* from the list and goes on with the next one.
NextSend_reaping(s, ws) ==
  LET it == s.iter[ws]
      lst == LoopList(s, ws)
      room_id == s.room[ws]
  IN  IF it.idx < Len(lst)
        THEN LET to == lst[it.idx + 1]
                 s1 == [s EXCEPT
                          !.iter[ws].idx = @ + 1,
                          !.calls[room_id][it.call].rcpts = Append(@, to),
                          !.calls[room_id][it.call].late = @ \/ to \in s.left]
             IN  IF s.open[to] \/ failMode = "drop"
                   THEN LET s2 == [s1 EXCEPT
                                     !.delivered[to] =
                                        Append(@, <<room_id, it.call>>)]
                        IN  IF s.at = 1
                              THEN [s2 EXCEPT !.pc[ws] = "send", !.at = 0, !.susp = TRUE]
                              ELSE NextSend(
                                     [s2 EXCEPT !.at = IF @ = 0 THEN 0 ELSE @ - 1],
                                     ws)
                   ELSE NextSend(
                          [s1 EXCEPT !.ac[room_id] = ListRemove(@, to),
                                     !.iter[ws].idx = it.idx],
                          ws)
        ELSE Continue([SetCall(s, ws, "state", "returned")
                         EXCEPT !.iter[ws] = NoIter],
                      ws, it.then)

\* The loop of lines 48-49 from one turn on: the list iterator's next(), then
\* send_text on the connection it yields, where the coroutine may be
\* suspended.  When the iterator is exhausted broadcast() returns.
NextSend(s, ws) ==
  LET it == s.iter[ws]
      lst == LoopList(s, ws)
      room_id == s.room[ws]
  IN  IF it.idx < Len(lst)
        THEN LET to == lst[it.idx + 1]
                 s1 == [s EXCEPT
                          !.iter[ws].idx = @ + 1,
                          !.calls[room_id][it.call].rcpts = Append(@, to),
                          !.calls[room_id][it.call].late = @ \/ to \in s.left]
             IN  IF s.open[to] \/ failMode = "drop"
                   THEN LET s2 == [s1 EXCEPT
                                     !.delivered[to] =
                                        Append(@, <<room_id, it.call>>)]
                        IN  IF s.at = 1
                              THEN [s2 EXCEPT !.pc[ws] = "send", !.at = 0, !.susp = TRUE]
                              ELSE NextSend(
                                     [s2 EXCEPT !.at = IF @ = 0 THEN 0 ELSE @ - 1],
                                     ws)
                   ELSE Raise(SetCall(s1, ws, "state", "raised"), ws,
                              failMode, it.then)
        ELSE Continue([SetCall(s, ws, "state", "returned")
                         EXCEPT !.iter[ws] = NoIter],
                      ws, it.then)

\* A readiness check that fires at the threshold and above it.
Continue_at_least(s, ws, then) ==
  CASE then = "check" ->
         LET size == room_size(s.ac, s.room[ws])
         IN  IF size >= Threshold
               THEN Broadcast(s, ws, "start", start_message(size), NoText, "recv")
               ELSE [s EXCEPT !.pc[ws] = "recv"]
    [] then = "recv" -> [s EXCEPT !.pc[ws] = "recv"]
    [] OTHER -> [s EXCEPT !.pc[ws] = "done", !.iter[ws] = NoIter,
                          !.open[ws] = FALSE]

\* A readiness check guarded to fire once per room.
Continue_fire_once(s, ws, then) ==
  CASE then = "check" ->
         LET size == room_size(s.ac, s.room[ws])
             cs == s.calls[s.room[ws]]
         IN  IF size = Threshold /\ \A n \in 1..Len(cs) : cs[n].kind # "start"
               THEN Broadcast(s, ws, "start", start_message(size), NoText, "recv")
               ELSE [s EXCEPT !.pc[ws] = "recv"]
    [] then = "recv" -> [s EXCEPT !.pc[ws] = "recv"]
    [] OTHER -> [s EXCEPT !.pc[ws] = "done", !.iter[ws] = NoIter,
                          !.open[ws] = FALSE]

\* The code after a broadcast() call returns, up to the next suspension.
Continue(s, ws, then) ==
  CASE then = "check" ->
         LET size == room_size(s.ac, s.room[ws])
         IN  IF size = Threshold
               THEN Broadcast(s, ws, "start", start_message(size), NoText, "recv")
               ELSE [s EXCEPT !.pc[ws] = "recv"]
    [] then = "recv" -> [s EXCEPT !.pc[ws] = "recv"]
    [] OTHER -> [s EXCEPT !.pc[ws] = "done", !.iter[ws] = NoIter,
                          !.open[ws] = FALSE]

\* An exception leaves a broadcast() call.  Only the calls of lines 87 and 97
\* are inside the try, and only WebSocketDisconnect is caught (line 99).
Raise(s, ws, exc, then) ==
  IF then = "recv" /\ exc = "disconnect"
    THEN Teardown([s EXCEPT !.iter[ws] = NoIter], ws)
    ELSE Crash(s, ws)

\* The except block, lines 101-105.
Teardown(s, ws) ==
  IF disconnect_raises(s.ac, ws, s.room[ws])
    THEN Crash(s, ws)
    ELSE Broadcast(Deregister(s, ws), ws, "leave",
                   leave_message(UserId(ws)), NoText, "exit")

\* ----------------------------------------------------------------- actions
Apply(s) ==
  /\ active_connections' = s.ac
  /\ pc' = s.pc
  /\ room' = s.room
  /\ iter' = s.iter
  /\ open' = s.open
  /\ delivered' = s.delivered
  /\ calls' = s.calls
  /\ joined' = s.joined
  /\ left' = s.left
  /\ yields' = IF s.susp THEN yields + 1 ELSE yields

InitWith(arriving) ==
  /\ active_connections = EmptyDict
  /\ pc = [c \in Conns |-> IF c \in arriving THEN "idle" ELSE "off"]
  /\ room = [c \in Conns |-> "none"]
  /\ iter = [c \in Conns |-> NoIter]
  /\ open = [c \in Conns |-> FALSE]
  /\ inbox = [c \in Conns |-> NoText]
  /\ failMode \in FailModes
  /\ delivered = [c \in Conns |-> <<>>]
  /\ calls = [r \in Rooms |-> <<>>]
  /\ joined = {}
  /\ left = {}
  /\ relayed = 0
  /\ closed = 0
  /\ yields = 0
  /\ lastOp = NoOp

Init == InitWith(Clients)

\* Lines 72-76 on the state: accept, connect(), the join announcement.
Admit(s, ws, room_id) ==
  Broadcast(Register([s EXCEPT !.open[ws] = TRUE], ws, room_id),
            ws, "join", join_message(UserId(ws)), NoText, "check")

\* websocket_endpoint is invoked for a new connection.
Connect(ws, room_id, at) ==
  /\ pc[ws] = "idle"
  /\ at > 0 => Events < MaxEvents
  /\ Apply(Admit(Here(at), ws, room_id))
  /\ UNCHANGED <<inbox, failMode, relayed, closed, lastOp>>

\* A send_text of line 49 completes and the loop goes on.
SendDone(ws, at) ==
  /\ pc[ws] = "send"
  /\ at > 0 => Events < MaxEvents
  /\ Apply(NextSend(Here(at), ws))
  /\ UNCHANGED <<inbox, failMode, relayed, closed, lastOp>>

\* receive_text of line 92 returns a text json.loads accepts: lines 96-97.
ReceiveRelay(ws, at) ==
  /\ pc[ws] = "recv"
  /\ inbox[ws] # NoText
  /\ inbox[ws].ok
  /\ at > 0 => Events < MaxEvents
  /\ Apply(Broadcast(Here(at), ws, "relay", json_loads(inbox[ws]), inbox[ws],
                     "recv"))
  /\ inbox' = [inbox EXCEPT ![ws] = NoText]
  /\ UNCHANGED <<failMode, relayed, closed, lastOp>>

\* An except block that catches every exception, JSONDecodeError included.
ReceiveMalformed_caught(ws) ==
  /\ pc[ws] = "recv"
  /\ inbox[ws] # NoText
  /\ ~inbox[ws].ok
  /\ Apply(Teardown(Here(0), ws))
  /\ inbox' = [inbox EXCEPT ![ws] = NoText]
  /\ UNCHANGED <<failMode, relayed, closed, lastOp>>

\* receive_text returns a text json.loads rejects: JSONDecodeError is not
\* caught by line 99.
ReceiveMalformed(ws) ==
  /\ pc[ws] = "recv"
  /\ inbox[ws] # NoText
  /\ ~inbox[ws].ok
  /\ Apply(Crash(Here(0), ws))
  /\ inbox' = [inbox EXCEPT ![ws] = NoText]
  /\ UNCHANGED <<failMode, relayed, closed, lastOp>>

\* receive_text raises WebSocketDisconnect: the queue is empty and the
\* client is gone.  Lines 99-105.
ReceiveDisconnect(ws, at) ==
  /\ pc[ws] = "recv"
  /\ inbox[ws] = NoText
  /\ ~open[ws]
  /\ at > 0 => Events < MaxEvents
  /\ Apply(Teardown(Here(at), ws))
  /\ UNCHANGED <<inbox, failMode, relayed, closed, lastOp>>

\* The client of an accepted connection sends a text.
ClientSend(ws, text) ==
  /\ pc[ws] \in {"send", "recv"}
  /\ open[ws]
  /\ inbox[ws] = NoText
  /\ Events < MaxEvents
  /\ inbox' = [inbox EXCEPT ![ws] = text]
  /\ relayed' = relayed + 1
  /\ UNCHANGED <<active_connections, pc, room, iter, open, failMode, delivered,
                 calls, joined, left, closed, yields, lastOp>>

\* The client of an accepted connection goes away.
ClientClose(ws) ==
  /\ pc[ws] \in {"send", "recv"}
  /\ open[ws]
  /\ Events < MaxEvents
  /\ closed' = closed + 1
  /\ open' = [open EXCEPT ![ws] = FALSE]
  /\ UNCHANGED <<active_connections, pc, room, iter, inbox, failMode, delivered,
                 calls, joined, left, relayed, yields, lastOp>>

Next ==
  \/ \E ws \in Conns : \E room_id \in RoomChoices(ws), at \in Ats :
       Connect(ws, room_id, at)
  \/ \E ws \in Conns, at \in Ats : SendDone(ws, at)
  \/ \E ws \in Conns, at \in Ats : ReceiveRelay(ws, at)
  \/ \E ws \in Conns : ReceiveMalformed(ws)
  \/ \E ws \in Conns, at \in Ats : ReceiveDisconnect(ws, at)
  \/ \E ws \in Conns, text \in ClientTexts : ClientSend(ws, text)
  \/ \E ws \in Conns : ClientClose(ws)

Spec == Init /\ [][Next]_vars

\* --------------------------------------------------------- a running room
\* The state once w1, w2 and w3 have joined room r1 one after the other, no
\* send suspending: three join announcements and w3's game_start.
Blank ==
  [ac |-> EmptyDict, pc |-> [c \in Conns |-> "off"],
   room |-> [c \in Conns |-> "none"], iter |-> [c \in Conns |-> NoIter],
   open |-> [c \in Conns |-> FALSE], delivered |-> [c \in Conns |-> <<>>],
   calls |-> [r \in Rooms |-> <<>>], joined |-> {}, left |-> {},
   at |-> 0, susp |-> FALSE]

RoomOfThree == Admit(Admit(Admit(Blank, "w1", "r1"), "w2", "r1"), "w3", "r1")

\* Runs that start in the room of three with one thing pending: a text a
\* client has sent, or a client that has gone away.
InitRoom ==
  /\ failMode \in FailModes
  /\ active_connections = RoomOfThree.ac
  /\ pc = RoomOfThree.pc
  /\ room = RoomOfThree.room
  /\ iter = RoomOfThree.iter
  /\ delivered = RoomOfThree.delivered
  /\ calls = RoomOfThree.calls
  /\ joined = RoomOfThree.joined
  /\ left = RoomOfThree.left
  /\ \E ws \in Clients :
       \/ /\ open = RoomOfThree.open
          /\ \E text \in ClientTexts : inbox = [c \in Conns |->
                                            IF c = ws THEN text ELSE NoText]
       \/ /\ open = [RoomOfThree.open EXCEPT ![ws] = FALSE]
          /\ inbox = [c \in Conns |-> NoText]
  /\ relayed = 0
  /\ closed = 0
  /\ yields = 0
  /\ lastOp = NoOp

NextRoom ==
  \/ \E ws \in Conns, at \in Ats : SendDone(ws, at)
  \/ \E ws \in Conns, at \in Ats : ReceiveRelay(ws, at)
  \/ \E ws \in Conns : ReceiveMalformed(ws)
  \/ \E ws \in Conns, at \in Ats : ReceiveDisconnect(ws, at)
  \/ \E ws \in Conns, text \in ClientTexts : ClientSend(ws, text)
  \/ \E ws \in Conns : ClientClose(ws)

SpecRoom == InitRoom /\ [][NextRoom]_vars

\* ------------------------------------------------------- a filling room
\* Runs that start with w1 and w2 in room r1, no send suspending, and two
\* more connections, w3 and w4, about to arrive.
RoomOfTwo == Admit(Admit(Blank, "w1", "r1"), "w2", "r1")

InitLobby ==
  /\ failMode \in FailModes
  /\ active_connections = RoomOfTwo.ac
  /\ pc = [c \in Conns |-> IF c \in {"w3", "w4"} THEN "idle" ELSE RoomOfTwo.pc[c]]
  /\ room = RoomOfTwo.room
  /\ iter = RoomOfTwo.iter
  /\ open = RoomOfTwo.open
  /\ inbox = [c \in Conns |-> NoText]
  /\ delivered = RoomOfTwo.delivered
  /\ calls = RoomOfTwo.calls
  /\ joined = RoomOfTwo.joined
  /\ left = RoomOfTwo.left
  /\ relayed = 0
  /\ closed = 0
  /\ yields = 0
  /\ lastOp = NoOp

SpecLobby == InitLobby /\ [][Next]_vars

\* ------------------------------------------------------- registry harness
\* The registry alone: connect() and disconnect() applied in any order with
\* any arguments.  A WebSocket object is passed to connect() once.
RegConnect(ws, room_id) ==
  /\ ws \notin joined
  /\ active_connections' = connect(active_connections, ws, room_id)
  /\ room' = [room EXCEPT ![ws] = room_id]
  /\ joined' = joined \cup {ws}
  /\ lastOp' = [op |-> "connect", ws |-> ws, room |-> room_id, raised |-> FALSE,
                before |-> active_connections]
  /\ UNCHANGED <<pc, iter, open, inbox, failMode, delivered, calls, left,
                 relayed, closed, yields>>

RegDisconnect(ws, room_id) ==
  /\ active_connections' = disconnect(active_connections, ws, room_id)
  /\ left' = IF room_id \in DOMAIN active_connections
                 /\ ws \in Range(active_connections[room_id])
               THEN left \cup {ws} ELSE left
  /\ lastOp' = [op |-> "disconnect", ws |-> ws, room |-> room_id,
                raised |-> disconnect_raises(active_connections, ws, room_id),
                before |-> active_connections]
  /\ UNCHANGED <<pc, room, iter, open, inbox, failMode, delivered, calls,
                 joined, relayed, closed, yields>>

NextRegistry ==
  \/ \E ws \in Conns, room_id \in Rooms : RegConnect(ws, room_id)
  \/ \E ws \in Conns, room_id \in Rooms : RegDisconnect(ws, room_id)

SpecRegistry == InitWith({}) /\ [][NextRegistry]_vars

\* ------------------------------------------------------------------ claims
\* The connections registered in a room and not yet deregistered.
Members(room_id) == {ws \in joined \ left : room[ws] = room_id}

\* C1: after any sequence of connect and disconnect operations, a room id is
\* a key of the registry exactly when the room has a registered connection,
\* and the list under a key is never empty.
C1_KeyIffNonEmpty ==
  \A r \in Rooms :
    /\ r \in DOMAIN active_connections <=> Members(r) # {}
    /\ r \in DOMAIN active_connections => active_connections[r] # <<>>

\* A disconnect has just removed the last member of a room and its key.
C1_LastMemberLeft ==
  /\ lastOp.op = "disconnect"
  /\ lastOp.room \in DOMAIN lastOp.before
  /\ Len(lastOp.before[lastOp.room]) = 1
  /\ lastOp.room \notin DOMAIN active_connections
  /\ DOMAIN active_connections # {}

\* C2: the room size the readiness check reads is the number of connections
\* registered in the room and not yet deregistered.
C2_SizeIsLiveCount ==
  \A r \in Rooms : room_size(active_connections, r) = Cardinality(Members(r))

\* A room of three has just lost a member.
C2_ThreeThenTwo ==
  /\ lastOp.op = "disconnect"
  /\ room_size(lastOp.before, lastOp.room) = 3
  /\ room_size(active_connections, lastOp.room) = 2

\* C3: disconnect() for a connection that is not in the room's list leaves
\* the registry unchanged and raises nothing.
C3_AbsentIsSilentNoOp ==
  ( /\ lastOp.op = "disconnect"
    /\ \/ lastOp.room \notin DOMAIN lastOp.before
       \/ lastOp.ws \notin Range(lastOp.before[lastOp.room]) )
  => /\ ~lastOp.raised
     /\ active_connections = lastOp.before

\* How often send_text of call n of room r returned on connection d.
Got(d, r, n) ==
  Cardinality({i \in 1..Len(delivered[d]) : delivered[d][i] = <<r, n>>})

IsPrefix(a, b) == Len(a) <= Len(b) /\ a = SubSeq(b, 1, Len(a))

C5_IssueOrder ==
  \A d \in Conns : \A i, j \in 1..Len(delivered[d]) :
    (i < j /\ delivered[d][i][1] = delivered[d][j][1])
      => delivered[d][i][2] < delivered[d][j][2]

\* C6: when a broadcast has returned, every connection that was in the
\* room's list at the call and has not been deregistered has received the
\* message exactly once.
C6_StableMemberServed ==
  \A r \in Rooms : \A n \in 1..Len(calls[r]) :
    calls[r][n].state = "returned" =>
      \A d \in Range(calls[r][n].snap) \ left : Got(d, r, n) = 1

\* C7: send_text is never called on a connection that has been
\* deregistered.
C7_NoSendAfterDeregister ==
  \A r \in Rooms : \A n \in 1..Len(calls[r]) : ~calls[r][n].late

\* A member was deregistered while a broadcast that had not reached it yet
\* was suspended, and the broadcast returned without sending to it.
C7_LeaverSkipped ==
  \E r \in Rooms : \E n \in 1..Len(calls[r]) :
    /\ calls[r][n].state = "returned"
    /\ calls[r][n].disturbed
    /\ Len(calls[r][n].rcpts) >= 2
    /\ \E d \in Range(calls[r][n].snap) \cap left :
         d \notin Range(calls[r][n].rcpts)

\* C8: the joining connection is in the room's list when its player_joined
\* broadcast is issued, and when that broadcast has returned the joining
\* connection and every other member still registered have received it.
C8_JoinReachesRoom ==
  \A r \in Rooms : \A n \in 1..Len(calls[r]) :
    LET c == calls[r][n]
    IN  c.kind = "join" =>
          /\ c.by \in Range(c.snap)
          /\ c.text = json_dumps(join_message(UserId(c.by)))
          /\ c.state = "returned" =>
                \A d \in Range(c.snap) \ left : Got(d, r, n) >= 1

\* C9: a relayed message has the content of the text received, is broadcast
\* in the sender's room only, and when the broadcast has returned the sender
\* and every other member still registered have received it.
C9_RelayReachesRoom ==
  \A r \in Rooms : \A n \in 1..Len(calls[r]) :
    LET c == calls[r][n]
    IN  c.kind = "relay" =>
          /\ Content(c.text) = Content(c.data)
          /\ r = room[c.by]
          /\ c.by \in Range(c.snap)
          /\ \A d \in Conns : Got(d, r, n) > 0 => room[d] = r
          /\ c.state = "returned" =>
                \A d \in Range(c.snap) \ left : Got(d, r, n) >= 1

\* C10: player_left is broadcast after the connection is removed, carries
\* its user_id, never reaches the connection that left, and when the
\* broadcast has returned every remaining member has received it.
C10_LeaveReachesRemaining ==
  \A r \in Rooms : \A n \in 1..Len(calls[r]) :
    LET c == calls[r][n]
    IN  c.kind = "leave" =>
          /\ c.by \in left
          /\ c.by \notin Range(c.snap)
          /\ c.text = json_dumps(leave_message(UserId(c.by)))
          /\ Got(c.by, r, n) = 0
          /\ c.state = "returned" =>
                \A d \in Range(c.snap) \ left : Got(d, r, n) >= 1

\* The connection is in some list of the registry.
Registered(ws) ==
  \E r \in DOMAIN active_connections : ws \in Range(active_connections[r])

\* The coroutine of the connection has ended.
Terminated(ws) == pc[ws] \in {"done", "crashed"}

\* C11: a connection whose client has gone away while its coroutine was
\* running is out of the registry when the coroutine ends, whatever the
\* coroutine was doing when the disconnect reached it and whether or not the
\* player_left broadcast raised; and a connection once deregistered is never
\* in the registry again.
C11_DisconnectDeregisters ==
  [][\A ws \in Conns :
       /\ (~open[ws] /\ ~Terminated(ws) /\ pc[ws] # "off" /\ pc[ws] # "idle"
             /\ Terminated(ws)')
            => ~Registered(ws)'
       /\ (ws \in left /\ ~Registered(ws)) => ~Registered(ws)'
    ]_vars

\* C12: when a connection's registration makes its room a room of three and
\* its player_joined broadcast has returned, that connection has issued,
\* after the player_joined call, a game_start broadcast whose message names
\* the count 3; and when that broadcast has returned the members still
\* registered have received it.
C12_ThirdJoinStartsGame ==
  \A r \in Rooms : \A n \in 1..Len(calls[r]) :
    LET c == calls[r][n]
    IN  (c.kind = "join" /\ Len(c.snap) = Threshold /\ c.state = "returned") =>
          \E m \in (n + 1)..Len(calls[r]) :
            /\ calls[r][m].kind = "start"
            /\ calls[r][m].by = c.by
            /\ calls[r][m].text = json_dumps(start_message(Threshold))
            /\ calls[r][m].state = "returned" =>
                  \A d \in Range(calls[r][m].snap) \ left : Got(d, r, m) >= 1

\* The room has had three members: a registration made its list a list of
\* three, which the player_joined call issued right after it recorded.
HadThree(r) ==
  \E m \in 1..Len(calls[r]) :
    calls[r][m].kind = "join" /\ Len(calls[r][m].snap) = Threshold

AtRest ==
  \A ws \in Conns :
    /\ pc[ws] # "send"
    /\ pc[ws] = "recv" => open[ws] /\ inbox[ws] = NoText

\* The game_start calls of a connection among the calls cs of a room.
StartsBy(cs, ws) ==
  {n \in 1..Len(cs) : cs[n].kind = "start" /\ cs[n].by = ws}

\* The player_joined call of a connection among cs has returned.
JoinReturned(cs, ws) ==
  \E n \in 1..Len(cs) :
    cs[n].kind = "join" /\ cs[n].by = ws /\ cs[n].state = "returned"

CallsBy(cs, ws) == {n \in 1..Len(cs) : cs[n].by = ws}

\* C15: when receive_text hands the coroutine a text json.loads rejects, the
\* coroutine ends with the exception, in that step no broadcast is issued
\* and no connection receives anything, the connection is not deregistered,
\* and the ended coroutine never issues a broadcast afterwards: no relay of
\* the text and no player_left for its user.
C15_MalformedEndsLoopSilently ==
  [][\A ws \in Conns :
       /\ ( /\ pc[ws] = "recv"
            /\ inbox[ws] # NoText
            /\ ~inbox[ws].ok
            /\ inbox'[ws] = NoText )
          => /\ pc'[ws] = "crashed"
             /\ calls' = calls
             /\ delivered' = delivered
             /\ left' = left
       /\ pc[ws] = "crashed"
          => /\ pc'[ws] = "crashed"
             /\ \A r \in Rooms : CallsBy(calls'[r], ws) = CallsBy(calls[r], ws)
       /\ \A r \in Rooms : \A n \in 1..Len(calls'[r]) :
            calls'[r][n].kind = "relay" => calls'[r][n].data.ok
    ]_vars

\* A coroutine has ended on a malformed text, none of its broadcasts having
\* raised, while other members remain in its room: it issued no player_left.
C15_CrashedAmongMembers ==
  \E ws \in Conns :
    /\ pc[ws] = "crashed"
    /\ room[ws] \in DOMAIN active_connections
    /\ Len(active_connections[room[ws]]) >= 2
    /\ \A n \in CallsBy(calls[room[ws]], ws) :
         /\ calls[room[ws]][n].state = "returned"
         /\ calls[room[ws]][n].kind # "leave"

\* C16: a connection whose coroutine has ended, by the except block or by an
\* exception nothing caught, is in no list of the registry; the registry
\* holds only connections whose coroutine is still running.
C16_RegistryHoldsRunningOnly ==
  \A ws \in Conns :
    /\ Terminated(ws) => ~Registered(ws)
    /\ Registered(ws) => pc[ws] \in {"send", "recv"}

\* C17: send_text of a broadcast is called only on connections that were in
\* the room's list when the broadcast was issued, and only those receive
\* its message: a connection registered later is not served by it.
C17_NoDeliveryFromEarlierCall ==
  \A r \in Rooms : \A n \in 1..Len(calls[r]) :
    /\ Range(calls[r][n].rcpts) \subseteq Range(calls[r][n].snap)
    /\ \A d \in Conns : Got(d, r, n) > 0 => d \in Range(calls[r][n].snap)

\* C18: a room has at most as many game_start broadcasts as registrations
\* that made its list a list of three.
C18_OneStartPerRise ==
  \A r \in Rooms :
    Cardinality({n \in 1..Len(calls[r]) : calls[r][n].kind = "start"})
      <= Cardinality({n \in 1..Len(calls[r]) :
                        calls[r][n].kind = "join"
                        /\ Len(calls[r][n].snap) = Threshold})

\* C19: the first message a connection receives is the player_joined
\* broadcast it issued itself.
C19_OwnJoinFirst ==
  \A d \in Conns :
    delivered[d] # <<>> =>
      LET c == calls[delivered[d][1][1]][delivered[d][1][2]]
      IN  c.kind = "join" /\ c.by = d

\* How often x occurs in a list.
Occurrences(lst, x) == Cardinality({i \in 1..Len(lst) : lst[i] = x})

\* The coroutine can still reach the except block of line 99: it is
\* suspended in the player_joined broadcast, in the try block, or in
\* receive_text, and has not entered the except block.
BeforeTeardown(ws) ==
  pc[ws] \in {"send", "recv"} /\ iter[ws].then # "exit"

\* C20: as long as a coroutine can still reach its except block, its
\* connection is in the list of its room exactly once and has not been
\* deregistered, so that the disconnect() of line 101 finds the key and the
\* connection and list.remove does not raise; the step that deregisters a
\* connection takes its one occurrence out of the list, and a deregistered
\* connection is never deregistered or registered again.
C20_TeardownFindsConnection ==
  [][\A ws \in Conns :
       /\ BeforeTeardown(ws) =>
            /\ room[ws] \in DOMAIN active_connections
            /\ Occurrences(active_connections[room[ws]], ws) = 1
            /\ ~disconnect_raises(active_connections, ws, room[ws])
            /\ ws \notin left
       /\ (ws \in left' /\ ws \notin left) =>
            /\ ws \in joined'
            /\ ~Registered(ws)'
            /\ ~BeforeTeardown(ws)'
       /\ ws \in left =>
            /\ ws \in left'
            /\ ~Registered(ws)'
            /\ ~BeforeTeardown(ws)'
    ]_vars

\* A connection has been deregistered by its coroutine's except block, the
\* coroutine has ended, and other members remain in the room.
C20_LeftWhileOthersStay ==
  \E ws \in left :
    /\ pc[ws] = "done"
    /\ room[ws] \in DOMAIN active_connections
    /\ Len(active_connections[room[ws]]) >= 1

====
